---- MODULE Spec2Model ----
(***************************************************************************)
(* Model of the intelligent zone detector of OCR_Intelligent               *)
(* (src/backend/intelligent_zone_detector.py): the six-stage pipeline of   *)
(* IntelligentZoneDetector.detect_and_classify_zones and its top-level     *)
(* error handler.                                                          *)
(*                                                                         *)
(* Numbers.  Python floats are modelled by exact rationals.  A confidence  *)
(* is a record [num, den] in lowest terms; the classifier's confidences    *)
(* are computed in hundredths (0.05 = 5).  Comparisons against a float     *)
(* literal are cross-multiplied (y < image_height * 0.15 is 20*y < 3*H).   *)
(*                                                                         *)
(* Environment.  OpenCV and Tesseract are outside the repository: the      *)
(* contours found in an image, the pixel statistics of a region and the    *)
(* text Tesseract reads are inputs, drawn from the pools below.  Zone      *)
(* features (a diagnostics map no stage reads back) are not modelled.      *)
(*                                                                         *)
(* Specifications.  Spec is one call of the entry point; RerunSpec adds a  *)
(* second call on the same detector and file; StageSpec runs stages 4-6    *)
(* on a directly constructed list of classified zones; ClassifySpec calls  *)
(* _classify_zone_semantically directly.                                   *)
(***************************************************************************)
EXTENDS Integers, Sequences, FiniteSets, TLC

VARIABLES
    pc,               \* position in detect_and_classify_zones
    file,             \* what cv2.imread(image_path) returns: None or <<height, width>>
    image,            \* the local image, None until read
    image_shape,      \* self.image_shape: None or <<height, width>>
    contours,         \* regions cv2.findContours reported, in its order
    candidate_zones,  \* local of the entry point, stage 1 output
    text_zones,       \* stage 2 output
    classified_zones, \* stage 3 output (grows box by box)
    ocr_log,          \* one entry per _perform_zone_ocr call of stage 3
    merged_zones,     \* stage 4 output
    clusters,         \* the merge_candidates lists stage 4 fused, in order
    ordered_zones,    \* stage 5 output
    final_zones,      \* stage 6 output, then the default zone if empty
    zones,            \* self.zones
    stages,           \* the stages completed so far, in order
    error,            \* the exception caught by the top-level handler
    result,           \* the returned dict, None until the call returns
    recovery,         \* what the handler met: the second imread, the writes
    previous,         \* what an earlier call on the same detector saw and returned
    call              \* a direct call of _classify_zone_semantically

vars == <<pc, file, image, image_shape, contours, candidate_zones, text_zones,
          classified_zones, ocr_log, merged_zones, clusters, ordered_zones,
          final_zones, zones, stages, error, result, recovery, previous, call>>

None == <<>>

(***************************************************************************)
(* Bounds of the model.                                                    *)
(***************************************************************************)
MaxContours == 3      \* contours per image
MaxSynthetic == 3     \* zones in a directly constructed stage input
MaxReplayed == 2      \* contours of an image that is submitted a second time

(***************************************************************************)
(* Small helpers.                                                          *)
(***************************************************************************)
Min(a, b) == IF a <= b THEN a ELSE b
Max(a, b) == IF a >= b THEN a ELSE b
Abs(a) == IF a < 0 THEN -a ELSE a

RECURSIVE GCD(_, _)
GCD(a, b) == IF b = 0 THEN a ELSE GCD(b, a % b)

\* the rational n/d (n >= 0, d > 0) in lowest terms
Rat(n, d) == LET g == GCD(n, d) IN [num |-> n \div g, den |-> d \div g]
Pct(p) == Rat(p, 100)
RatAdd(a, b) == Rat(a.num * b.den + b.num * a.den, a.den * b.den)

Range(s) == {s[i] : i \in 1..Len(s)}

RECURSIVE SumSeq(_)
SumSeq(s) == IF s = <<>> THEN 0 ELSE Head(s) + SumSeq(Tail(s))

RECURSIVE SumRat(_)
SumRat(s) == IF s = <<>> THEN Rat(0, 1) ELSE RatAdd(Head(s), SumRat(Tail(s)))

RECURSIVE SortedSeq(_)
\* the elements of a finite set of integers, increasing
SortedSeq(S) ==
    IF S = {} THEN <<>>
    ELSE LET m == CHOOSE x \in S : \A y \in S : x <= y
         IN <<m>> \o SortedSeq(S \ {m})

RECURSIVE MinSeq(_)
MinSeq(s) == IF Len(s) = 1 THEN s[1] ELSE Min(Head(s), MinSeq(Tail(s)))

RECURSIVE MaxSeq(_)
MaxSeq(s) == IF Len(s) = 1 THEN s[1] ELSE Max(Head(s), MaxSeq(Tail(s)))

\* sequences of distinct elements of S, of length at most n
RECURSIVE DistinctSeqs(_, _)
DistinctSeqs(S, n) ==
    IF n = 0 THEN {<<>>}
    ELSE LET shorter == DistinctSeqs(S, n - 1)
         IN shorter \cup {Append(p[1], p[2]) :
                            p \in {q \in shorter \X S : q[2] \notin Range(q[1])}}

(***************************************************************************)
(* ZoneType (lines 22-39) and the Zone dataclass (lines 41-55).            *)
(***************************************************************************)
ZoneType == {"header", "title", "subtitle", "paragraph", "list", "table",
             "footer", "signature", "logo", "form_field", "price", "date",
             "address", "reference", "noise", "unknown"}

Zone(id, type, bbox, confidence, content, ocr_confidence) ==
    [id |-> id, type |-> type, bbox |-> bbox, confidence |-> confidence,
     content |-> content, ocr_confidence |-> ocr_confidence,
     reading_order |-> 0]

Area(bbox) == bbox[3] * bbox[4]

(***************************************************************************)
(* Texts.  Python's str.strip, re.search, str.isdigit and the `in` test    *)
(* are tabulated for the texts of the model; the entries were computed     *)
(* with the patterns of lines 67-99.                                       *)
(***************************************************************************)
\* what pytesseract.image_to_string may return (untrimmed)
RawTexts == {" FACTURE N° 2024-01\n", "A\n", "45 %", " \n"}

\* str.strip()
Strip(text) ==
    CASE text = " FACTURE N° 2024-01\n" -> "FACTURE N° 2024-01"
      [] text = "A\n" -> "A"
      [] text \in {" \n", " "} -> ""
      [] OTHER -> text

\* the types of self.semantic_patterns with a pattern that re.search finds
\* in text.lower().strip()
PatternMatches(text) ==
    CASE Strip(text) = "FACTURE N° 2024-01" -> {"header", "reference"}
      [] Strip(text) = "123,45 €" -> {"price"}
      [] Strip(text) = "Total ref: 12" -> {"price", "reference"}
      [] Strip(text) = "Date: 12/03/2024 prix" -> {"date", "price"}
      [] Strip(text) = "12 rue signature" -> {"address", "signature"}
      [] Strip(text) = "FACTURE" -> {"header"}
      [] Strip(text) = "signé" -> {"signature"}
      [] Strip(text) = "Date: total TTC" -> {"date", "price"}
      [] OTHER -> {}

\* sum(1 for c in text if c.isdigit())
DigitCount(text) ==
    CASE text = "FACTURE N° 2024-01" -> 6
      [] text = "45 %" -> 2
      [] text = "123,45 €" -> 5
      [] text = "Total ref: 12" -> 2
      [] text = "Date: 12/03/2024 prix" -> 8
      [] text = "12 rue signature" -> 2
      [] text = "12,00" -> 4
      [] text = "page 1" -> 1
      [] OTHER -> 0

\* any(symbol in text for symbol in ['€', '$', '%', ','])
HasSymbol(text) == text \in {"45 %", "123,45 €", "12,00"}

\* the texts of the model with a character outside ASCII
NonAsciiTexts ==
    {" FACTURE N° 2024-01\n", "FACTURE N° 2024-01", "123,45 €", "signé",
     "Zone de texte détectée"}

\* A Python str is a value: equal texts concatenate to equal texts.  A TLC
\* string with a character outside ASCII that was read back from the state
\* queue's file is equal to the string written here but concatenates to a
\* different one; SameText(text) is text, as written here.
SameText(text) ==
    IF text \in NonAsciiTexts THEN CHOOSE t \in NonAsciiTexts : t = text ELSE text

\* self.semantic_patterns.items(): dict order is declaration order
semantic_patterns == <<"header", "date", "price", "address", "reference", "signature">>

(***************************************************************************)
(* Stage 3 helpers.                                                        *)
(***************************************************************************)
\* the outcomes of the pixel analysis of the fallback branch (lines 449-500)
FallbackKinds == {"dense", "detected", "graphic", "content", "empty", "raise"}

\* lines 449-500: the text and confidence estimated from pixel density
DensityFallback(fb) ==
    CASE fb = "dense" -> <<"Zone de texte dense", 75>>
      [] fb = "detected" -> <<"Zone de texte détectée", 65>>
      [] fb = "graphic" -> <<"Contenu graphique ou texte", 50>>
      [] fb = "content" -> <<"Zone de contenu", 45>>
      [] fb = "empty" -> <<"Zone vide ou peu de contenu", 30>>

\* lines 430-442: the confidence Tesseract's text gets from its length
LengthConfidence(text_length) ==
    IF text_length > 15 THEN 90
    ELSE IF text_length > 8 THEN 85
    ELSE IF text_length > 3 THEN 80
    ELSE 75

\* one invocation of pytesseract.image_to_string: it raises, or returns a text
Invocation(lang, raised, text) == [lang |-> lang, raised |-> raised, text |-> text]

\* an engine that is asked again when its first reading is blank
tesseract_retry_on_blank(imported, first, second) ==
    IF ~imported
    THEN [ok |-> FALSE, text |-> "", calls |-> <<>>]
    ELSE IF ~first.raised /\ Strip(first.text) # ""
    THEN [ok |-> TRUE, text |-> first.text, calls |-> <<first>>]
    ELSE [ok |-> ~second.raised, text |-> second.text, calls |-> <<first, second>>]

\* lines 405-428: the import, the invocation with lang='fra+eng' and, when
\* that one raises, the invocation without configuration.  ok is FALSE when
\* line 444 catches an exception; calls are the invocations made.
tesseract(imported, first, second) ==
    IF ~imported
    THEN [ok |-> FALSE, text |-> "", calls |-> <<>>]
    ELSE IF ~first.raised
    THEN [ok |-> TRUE, text |-> first.text, calls |-> <<first>>]
    ELSE [ok |-> ~second.raised, text |-> second.text, calls |-> <<first, second>>]

\* a handler that degrades a failed recognition to ("", 0.0)
perform_zone_ocr_empty(tess, fb) ==
    IF tess.ok /\ Strip(tess.text) # ""
    THEN <<Strip(tess.text), LengthConfidence(Len(Strip(tess.text)))>>
    ELSE <<"", 0>>

\* _perform_zone_ocr: tess is Tesseract's outcome ([ok |-> FALSE] when the
\* import or both image_to_string calls raise), fb the pixel analysis of the
\* same crop.  Returns <<text, ocr_conf>>.
perform_zone_ocr(tess, fb) ==
    IF tess.ok /\ Strip(tess.text) # ""
    THEN <<Strip(tess.text), LengthConfidence(Len(Strip(tess.text)))>>
    ELSE IF fb = "raise"
         THEN <<"Erreur de traitement", 30>>
         ELSE DensityFallback(fb)

\* the loop of lines 515-518 ended without returning
NoMatch == "no match"

\* how many patterns of a type re.search finds in text.lower().strip(),
\* for the texts in which patterns of several types are found
MatchingPatterns(text, type) ==
    CASE Strip(text) = "FACTURE N° 2024-01" /\ type = "header" -> 2
      [] Strip(text) = "Date: 12/03/2024 prix" /\ type = "date" -> 3
      [] Strip(text) = "Date: total TTC" /\ type = "price" -> 2
      [] OTHER -> IF type \in PatternMatches(text) THEN 1 ELSE 0

\* a classifier that scores the types: the type with the most matching
\* patterns, the first such in table order
MostMatchedPattern(text, k) ==
    LET matched == {i \in k..Len(semantic_patterns) :
                        semantic_patterns[i] \in PatternMatches(text)}
        best == CHOOSE i \in matched :
                    \A j \in matched :
                        \/ MatchingPatterns(text, semantic_patterns[j])
                               < MatchingPatterns(text, semantic_patterns[i])
                        \/ /\ MatchingPatterns(text, semantic_patterns[j])
                                  = MatchingPatterns(text, semantic_patterns[i])
                           /\ i <= j
    IN IF matched = {} THEN NoMatch ELSE semantic_patterns[best]

RECURSIVE FirstPattern(_, _)
\* lines 515-518: the first type, in table order from k, with a match
FirstPattern(text, k) ==
    IF k > Len(semantic_patterns) THEN NoMatch
    ELSE IF semantic_patterns[k] \in PatternMatches(text) THEN semantic_patterns[k]
    ELSE FirstPattern(text, k + 1)

\* a classifier for which half the image width is already wide
classify_by_position_half_is_wide(text, x, y, w, h, shape) ==
    LET image_height == IF shape # None THEN shape[1] ELSE 1000
        image_width == IF shape # None THEN shape[2] ELSE 1000
    IN IF 20 * y < 3 * image_height
       THEN (IF 2 * w >= image_width THEN "header" ELSE "reference")
       ELSE IF 5 * y > 4 * image_height
       THEN (IF h < 50 THEN "footer" ELSE "signature")
       ELSE IF 10 * DigitCount(text) > 3 * Len(text) /\ HasSymbol(text)
       THEN "price"
       ELSE IF h > 0 /\ w > 5 * h
       THEN "paragraph"
       ELSE "unknown"

\* lines 520-549: classification by position and dimensions
classify_by_position(text, x, y, w, h, shape) ==
    LET image_height == IF shape # None THEN shape[1] ELSE 1000
        image_width == IF shape # None THEN shape[2] ELSE 1000
    IN IF 20 * y < 3 * image_height
       THEN (IF 2 * w > image_width THEN "header" ELSE "reference")
       ELSE IF 5 * y > 4 * image_height
       THEN (IF h < 50 THEN "footer" ELSE "signature")
       ELSE IF 10 * DigitCount(text) > 3 * Len(text) /\ HasSymbol(text)
       THEN "price"
       ELSE IF h > 0 /\ w > 5 * h
       THEN "paragraph"
       ELSE "unknown"

\* a classifier that asks the position first and the patterns last
classify_position_first(text, x, y, w, h, shape) ==
    IF text = "" \/ Len(Strip(text)) < 2 THEN "unknown"
    ELSE IF classify_by_position(text, x, y, w, h, shape) # "unknown"
    THEN classify_by_position(text, x, y, w, h, shape)
    ELSE IF FirstPattern(text, 1) # NoMatch THEN FirstPattern(text, 1)
    ELSE "unknown"

\* a classifier without the test of line 509
classify_any_length(text, x, y, w, h, shape) ==
    IF FirstPattern(text, 1) # NoMatch THEN FirstPattern(text, 1)
    ELSE classify_by_position(text, x, y, w, h, shape)

\* _classify_zone_semantically
classify_zone_semantically(text, x, y, w, h, shape) ==
    IF text = "" \/ Len(Strip(text)) < 2 THEN "unknown"
    ELSE IF FirstPattern(text, 1) # NoMatch THEN FirstPattern(text, 1)
    ELSE classify_by_position(text, x, y, w, h, shape)

\* line 594: the minimum confidence, in hundredths
ConfidenceFloor == 30

\* a clamp that lost line 597
ClampFloorOnly(c) == Max(c, ConfidenceFloor)

\* lines 590-597: max(.., 0.3) then min(.., 1.0), in hundredths
ClampConfidence(c) == Min(Max(c, ConfidenceFloor), 100)

\* _calculate_zone_confidence, in hundredths
calculate_zone_confidence(text, ocr_conf, zone_type, width, height, shape) ==
    LET text_length == Len(Strip(text))
        length_bonus == IF text_length > 20 THEN 20
                        ELSE IF text_length > 10 THEN 10
                        ELSE IF text_length > 5 THEN 5
                        ELSE 0
        area == width * height
        image_area == shape[1] * shape[2]
        size_bonus == IF shape # None
                      THEN (IF image_area <= 1000 * area /\ 10 * area <= image_area
                            THEN 10
                            ELSE IF image_area <= 10000 * area /\ 2 * area <= image_area
                            THEN 5
                            ELSE 0)
                      ELSE 5
        type_bonus == IF zone_type \in {"header", "title", "paragraph"} THEN 10
                      ELSE IF zone_type \in {"date", "price", "reference"} THEN 5
                      ELSE 0
    IN ClampConfidence(ocr_conf + length_bonus + size_bonus + type_bonus)

\* a classifier that numbers on from the zones an earlier call left in
\* self.zones
classify_box_numbering_on(i, box, tess, fb, shape) ==
    LET ocr == perform_zone_ocr(tess, fb)
        text == ocr[1]
        ocr_conf == ocr[2]
        zone_type == classify_zone_semantically(text, box[1], box[2], box[3], box[4], shape)
        confidence == calculate_zone_confidence(text, ocr_conf, zone_type, box[3], box[4], shape)
    IN Zone(Len(zones) + i + 1, zone_type, box, Pct(confidence), text, Rat(ocr_conf, 1))

\* lines 364-396: the Zone built for box i (0-based) of the filtered list
classify_box(i, box, tess, fb, shape) ==
    LET ocr == perform_zone_ocr(tess, fb)
        text == ocr[1]
        ocr_conf == ocr[2]
        zone_type == classify_zone_semantically(text, box[1], box[2], box[3], box[4], shape)
        confidence == calculate_zone_confidence(text, ocr_conf, zone_type, box[3], box[4], shape)
    IN Zone(i + 1, zone_type, box, Pct(confidence), text, Rat(ocr_conf, 1))

(***************************************************************************)
(* Stage 1: _detect_candidate_zones.  The contour extraction (lines        *)
(* 247-283) is OpenCV's; the model starts from the bounding rectangles.    *)
(***************************************************************************)
\* lines 295-297: the filter on one bounding rectangle
CandidateFilter(box, height, width) ==
    /\ 10000 * Area(box) >= width * height
    /\ box[3] >= 15 /\ box[4] >= 6
    /\ box[4] <= 100 * box[3] /\ box[3] <= 100 * box[4]

\* a detector without lines 300-303
NoCandidateFallback(kept, height, width) == kept

\* lines 300-303: the full-image zone when no rectangle passed the filter
CandidateFallback(kept, height, width) ==
    IF kept = <<>> THEN << <<0, 0, width, height>> >> ELSE kept

\* lines 286-305
detect_candidate_zones(boxes, height, width) ==
    LET Keep(box) == CandidateFilter(box, height, width)
    IN CandidateFallback(SelectSeq(boxes, Keep), height, width)

(***************************************************************************)
(* Stage 2: _filter_geometric_shapes.  roi is the class of the region's    *)
(* pixels: "text", "solid" (Otsu density outside [0.001, 0.999]) or        *)
(* "flat" (standard deviation below 1).                                    *)
(***************************************************************************)
\* an analysis without the area test of line 340 and the deviation test
\* of line 354
analyze_density_only(roi, width, height, shape) ==
    IF width * height = 0 THEN FALSE
    ELSE roi # "solid"

\* an analysis whose area limit is the whole image
analyze_up_to_whole_image(roi, width, height, shape) ==
    IF width * height = 0 THEN FALSE
    ELSE IF shape # None /\ width * height > shape[1] * shape[2] THEN FALSE
    ELSE IF roi = "solid" THEN FALSE
    ELSE IF roi = "flat" THEN FALSE
    ELSE TRUE

\* _analyze_text_characteristics
analyze_text_characteristics(roi, width, height, shape) ==
    IF width * height = 0 THEN FALSE
    ELSE IF shape # None /\ 5 * (width * height) > 4 * (shape[1] * shape[2]) THEN FALSE
    ELSE IF roi = "solid" THEN FALSE
    ELSE IF roi = "flat" THEN FALSE
    ELSE TRUE

\* _filter_geometric_shapes; gray[box] is the pixel class of
\* gray_image[y:y+h, x:x+w]
filter_geometric_shapes(boxes, gray, shape) ==
    LET IsText(box) == analyze_text_characteristics(gray[box], box[3], box[4], shape)
    IN SelectSeq(boxes, IsText)

(***************************************************************************)
(* Stage 4: _merge_similar_zones.                                          *)
(***************************************************************************)
\* lines 668-672
incompatible_types == {<<"header", "footer">>, <<"signature", "price">>,
                       <<"logo", "paragraph">>}

\* lines 674-676
Incompatible(zone1, zone2) ==
    \E p \in incompatible_types :
        \/ zone1.type = p[1] /\ zone2.type = p[2]
        \/ zone1.type = p[2] /\ zone2.type = p[1]

\* lines 678-689: distance < avg_size * 0.8, squared and cleared of
\* fractions (centres doubled, avg_size * 0.8 = (w1+h1+w2+h2) / 5)
CloseEnough(bbox1, bbox2) ==
    LET dx == (2 * bbox1[1] + bbox1[3]) - (2 * bbox2[1] + bbox2[3])
        dy == (2 * bbox1[2] + bbox1[4]) - (2 * bbox2[2] + bbox2[4])
        size == bbox1[3] + bbox1[4] + bbox2[3] + bbox2[4]
    IN 25 * (dx * dx + dy * dy) < 4 * size * size

\* line 691: abs(zone1.confidence - zone2.confidence) < 0.3
SimilarConfidence(c1, c2) ==
    10 * Abs(c1.num * c2.den - c2.num * c1.den) < 3 * c1.den * c2.den

\* a predicate that lost the type test of line 690
should_merge_any_type(zone1, zone2) ==
    IF Incompatible(zone1, zone2) THEN FALSE
    ELSE /\ CloseEnough(zone1.bbox, zone2.bbox)
         /\ SimilarConfidence(zone1.confidence, zone2.confidence)

\* a predicate whose confidence test lets the limit through
should_merge_at_limit(zone1, zone2) ==
    IF Incompatible(zone1, zone2) THEN FALSE
    ELSE /\ CloseEnough(zone1.bbox, zone2.bbox)
         /\ zone1.type = zone2.type
         /\ 10 * Abs(zone1.confidence.num * zone2.confidence.den
                      - zone2.confidence.num * zone1.confidence.den)
                <= 3 * zone1.confidence.den * zone2.confidence.den

\* _should_merge_zones
should_merge_zones(zone1, zone2) ==
    IF Incompatible(zone1, zone2) THEN FALSE
    ELSE /\ CloseEnough(zone1.bbox, zone2.bbox)
         /\ zone1.type = zone2.type
         /\ SimilarConfidence(zone1.confidence, zone2.confidence)

\* a box whose width and height are the far corner (line 702 without
\* the subtractions)
MergedBBoxCorners(zs) ==
    <<MinSeq([i \in 1..Len(zs) |-> zs[i].bbox[1]]),
      MinSeq([i \in 1..Len(zs) |-> zs[i].bbox[2]]),
      MaxSeq([i \in 1..Len(zs) |-> zs[i].bbox[1] + zs[i].bbox[3]]),
      MaxSeq([i \in 1..Len(zs) |-> zs[i].bbox[2] + zs[i].bbox[4]])>>

\* a fused zone that keeps the box of its first member
MergedBBoxOfSeed(zs) == zs[1].bbox

\* lines 697-702: the rectangle enclosing the members
MergedBBox(zs) ==
    LET min_x == MinSeq([i \in 1..Len(zs) |-> zs[i].bbox[1]])
        min_y == MinSeq([i \in 1..Len(zs) |-> zs[i].bbox[2]])
        max_x == MaxSeq([i \in 1..Len(zs) |-> zs[i].bbox[1] + zs[i].bbox[3]])
        max_y == MaxSeq([i \in 1..Len(zs) |-> zs[i].bbox[2] + zs[i].bbox[4]])
    IN <<min_x, min_y, max_x - min_x, max_y - min_y>>

\* a fusion that keeps the content of its first member only
ContentOfSeed(zs) == zs[1].content

RECURSIVE JoinContents(_)
\* line 705: " ".join(zone.content for zone in zones if zone.content.strip())
JoinContents(zs) ==
    IF zs = <<>> THEN ""
    ELSE LET rest == JoinContents(Tail(zs))
         IN IF Strip(Head(zs).content) = "" THEN rest
            ELSE IF rest = "" THEN SameText(Head(zs).content)
            ELSE SameText(Head(zs).content) \o " " \o rest

\* a mean that divides by the area of the enclosing rectangle
WeightedConfidenceOverBox(zs) ==
    LET weighted == SumRat([i \in 1..Len(zs) |->
                        Rat(zs[i].confidence.num * Area(zs[i].bbox), zs[i].confidence.den)])
    IN Rat(weighted.num, weighted.den * Area(MergedBBox(zs)))

\* lines 708-709: the area-weighted mean of the members' confidences
WeightedConfidence(zs) ==
    LET total_area == SumSeq([i \in 1..Len(zs) |-> Area(zs[i].bbox)])
        weighted == SumRat([i \in 1..Len(zs) |->
                        Rat(zs[i].confidence.num * Area(zs[i].bbox), zs[i].confidence.den)])
    IN Rat(weighted.num, weighted.den * total_area)

\* lines 712-715: the most frequent type, the first such in member order
MajorityType(zs) ==
    LET Count(t) == Cardinality({i \in 1..Len(zs) : zs[i].type = t})
        best == CHOOSE i \in 1..Len(zs) :
                    /\ \A j \in 1..Len(zs) : Count(zs[j].type) <= Count(zs[i].type)
                    /\ \A j \in 1..(i - 1) : Count(zs[j].type) < Count(zs[i].type)
    IN zs[best].type

\* line 723: the mean of the members' ocr_confidence
MeanOcrConfidence(zs) ==
    LET total == SumRat([i \in 1..Len(zs) |-> zs[i].ocr_confidence])
    IN Rat(total.num, total.den * Len(zs))

\* a fusion that keeps the id of its last member
merge_zone_group_last_id(zs) ==
    Zone(zs[Len(zs)].id, MajorityType(zs), MergedBBox(zs), WeightedConfidence(zs),
         JoinContents(zs), MeanOcrConfidence(zs))

\* _merge_zone_group
merge_zone_group(zs) ==
    Zone(zs[1].id, MajorityType(zs), MergedBBox(zs), WeightedConfidence(zs),
         JoinContents(zs), MeanOcrConfidence(zs))

RECURSIVE MergeCandidatesForgetting(_, _, _)
\* a merger that marks the seeds in used_indices but not the zones they take
MergeCandidatesForgetting(zs, i, used) ==
    IF i > Len(zs) THEN <<>>
    ELSE IF i \in used THEN MergeCandidatesForgetting(zs, i + 1, used)
    ELSE LET joined == {j \in (i + 1)..Len(zs) :
                            j \notin used /\ should_merge_zones(zs[i], zs[j])}
         IN << <<i>> \o SortedSeq(joined) >>
            \o MergeCandidatesForgetting(zs, i + 1, used \cup {i})

RECURSIVE ChainFrom(_, _, _)
\* the zones of pool reached from group through pairs that should merge
ChainFrom(zs, group, pool) ==
    LET more == {j \in pool \ group :
                    \E g \in group : should_merge_zones(zs[g], zs[j])}
    IN IF more = {} THEN group ELSE ChainFrom(zs, group \cup more, pool)

RECURSIVE MergeCandidatesChained(_, _, _)
\* a merger that compares a zone with every member taken so far, not with
\* the seed alone
MergeCandidatesChained(zs, i, used) ==
    IF i > Len(zs) THEN <<>>
    ELSE IF i \in used THEN MergeCandidatesChained(zs, i + 1, used)
    ELSE LET joined == ChainFrom(zs, {i}, {j \in (i + 1)..Len(zs) : j \notin used}) \ {i}
         IN << <<i>> \o SortedSeq(joined) >>
            \o MergeCandidatesChained(zs, i + 1, used \cup {i} \cup joined)

RECURSIVE MergeCandidates(_, _, _)
\* lines 639-653: the merge_candidates list of every seed from index i on,
\* as lists of indices; used is used_indices
MergeCandidates(zs, i, used) ==
    IF i > Len(zs) THEN <<>>
    ELSE IF i \in used THEN MergeCandidates(zs, i + 1, used)
    ELSE LET joined == {j \in (i + 1)..Len(zs) :
                            j \notin used /\ should_merge_zones(zs[i], zs[j])}
         IN << <<i>> \o SortedSeq(joined) >>
            \o MergeCandidates(zs, i + 1, used \cup {i} \cup joined)

\* the zones of one merge_candidates list
Members(zs, group) == [k \in 1..Len(group) |-> zs[group[k]]]

\* _merge_similar_zones
merge_similar_zones(zs) ==
    IF Len(zs) <= 1 THEN zs
    ELSE LET groups == MergeCandidates(zs, 1, {})
         IN [k \in 1..Len(groups) |->
                IF Len(groups[k]) > 1 THEN merge_zone_group(Members(zs, groups[k]))
                ELSE zs[groups[k][1]]]

(***************************************************************************)
(* Stage 5: _determine_reading_order.                                      *)
(***************************************************************************)
\* lines 734-751, and the default of type_priority.get(zone.type, 15)
type_priority(type) ==
    CASE type = "header" -> 1 [] type = "title" -> 2 [] type = "subtitle" -> 3
      [] type = "date" -> 4 [] type = "reference" -> 5 [] type = "address" -> 6
      [] type = "paragraph" -> 7 [] type = "list" -> 8 [] type = "table" -> 9
      [] type = "price" -> 10 [] type = "form_field" -> 11
      [] type = "signature" -> 12 [] type = "footer" -> 13 [] type = "logo" -> 14
      [] type = "unknown" -> 15 [] type = "noise" -> 16
      [] OTHER -> 15

\* lines 754-759
sort_key(zone) == <<type_priority(zone.type), zone.bbox[2] \div 50, zone.bbox[1] \div 50>>

\* tuple comparison: a < b
KeyLess(a, b) ==
    \/ a[1] < b[1]
    \/ a[1] = b[1] /\ a[2] < b[2]
    \/ a[1] = b[1] /\ a[2] = b[2] /\ a[3] < b[3]

RECURSIVE InsertBeforeEqual(_, _)
\* a sort that places z before the elements with an equal key
InsertBeforeEqual(sorted, z) ==
    IF sorted = <<>> THEN <<z>>
    ELSE IF ~KeyLess(sort_key(Head(sorted)), sort_key(z)) THEN <<z>> \o sorted
    ELSE <<Head(sorted)>> \o InsertBeforeEqual(Tail(sorted), z)

RECURSIVE InsertSorted(_, _)
\* z placed after every element whose key is not greater
InsertSorted(sorted, z) ==
    IF sorted = <<>> THEN <<z>>
    ELSE IF KeyLess(sort_key(z), sort_key(Head(sorted))) THEN <<z>> \o sorted
    ELSE <<Head(sorted)>> \o InsertSorted(Tail(sorted), z)

RECURSIVE StableSort(_)
\* sorted(zones, key=sort_key): stable
StableSort(zs) ==
    IF zs = <<>> THEN <<>>
    ELSE InsertSorted(StableSort(SubSeq(zs, 1, Len(zs) - 1)), zs[Len(zs)])

\* a numbering by rank: zones with equal keys share a number
AssignOrderByRank(sorted) ==
    [i \in 1..Len(sorted) |->
        [sorted[i] EXCEPT !.reading_order =
            1 + Cardinality({j \in 1..Len(sorted) :
                                 KeyLess(sort_key(sorted[j]), sort_key(sorted[i]))})]]

\* lines 764-765
AssignOrder(sorted) == [i \in 1..Len(sorted) |-> [sorted[i] EXCEPT !.reading_order = i]]

\* _determine_reading_order
determine_reading_order(zs) ==
    IF zs = <<>> THEN zs ELSE AssignOrder(StableSort(zs))

(***************************************************************************)
(* Stage 6: _final_validation.                                             *)
(***************************************************************************)
\* lines 776-794: the zone is skipped (area_ratio < 0.00001 is
\* area < ceil(image_area / 100000) for an integer area)
Dropped(zone, shape) ==
    \/ 100 * zone.confidence.num < 5 * zone.confidence.den
    \/ /\ shape # None
       /\ \/ Area(zone.bbox) < (shape[1] * shape[2] + 99999) \div 100000
          \/ 100 * Area(zone.bbox) > 95 * (shape[1] * shape[2])
    \/ Strip(zone.content) = ""
    \/ zone.type = "noise"

\* a validator without lines 799-801
NoValidationFallback(validated, zs) == validated

\* lines 799-801: the first zone when nothing was validated
ValidationFallback(validated, zs) ==
    IF validated = <<>> /\ zs # <<>> THEN <<zs[1]>> ELSE validated

\* a validator that numbers the zones it keeps again, from 1
final_validation_renumbering(zs, shape) ==
    LET Kept(zone) == ~Dropped(zone, shape)
    IN AssignOrder(ValidationFallback(SelectSeq(zs, Kept), zs))

\* _final_validation
final_validation(zs, shape) ==
    LET Kept(zone) == ~Dropped(zone, shape)
    IN ValidationFallback(SelectSeq(zs, Kept), zs)

(***************************************************************************)
(* The entry point's results (lines 155-242) and _save_results.            *)
(***************************************************************************)
DefaultContent == "Zone par défaut - traitement de l'image complète"

\* lines 159-167 and 193-201: the zone covering the whole image
default_zone(shape) ==
    [Zone(1, "paragraph", <<0, 0, shape[2], shape[1]>>, Pct(80), DefaultContent,
          Rat(80, 1)) EXCEPT !.reading_order = 1]

\* an entry point without lines 156-168
NoDefaultZone(zs, shape) == zs

\* lines 156-168
DefaultIfEmpty(zs, shape) == IF zs = <<>> THEN <<default_zone(shape)>> ELSE zs

\* lines 831-842: the record written for one zone (file names left out)
zone_info(zone) ==
    [zone_id |-> zone.id, type |-> zone.type, coordinates |-> zone.bbox,
     content |-> zone.content, confidence |-> zone.confidence,
     ocr_confidence |-> zone.ocr_confidence, reading_order |-> zone.reading_order]

\* _get_zone_type_summary
get_zone_type_summary(zs) ==
    [t \in {zs[i].type : i \in 1..Len(zs)} |->
        Cardinality({i \in 1..Len(zs) : zs[i].type = t})]

RECURSIVE InsertByOrder(_, _)
InsertByOrder(sorted, z) ==
    IF sorted = <<>> THEN <<z>>
    ELSE IF z.reading_order < Head(sorted).reading_order THEN <<z>> \o sorted
    ELSE <<Head(sorted)>> \o InsertByOrder(Tail(sorted), z)

RECURSIVE SortByOrder(_)
\* sorted(final_zones, key=lambda z: z.reading_order)
SortByOrder(zs) ==
    IF zs = <<>> THEN <<>>
    ELSE InsertByOrder(SortByOrder(SubSeq(zs, 1, Len(zs) - 1)), zs[Len(zs)])

\* a list of the ids in increasing order of id
ReadingOrderById(zs) == SortedSeq({zs[i].id : i \in 1..Len(zs)})

\* line 182
ReadingOrderIds(zs) == LET o == SortByOrder(zs) IN [i \in 1..Len(o) |-> o[i].id]

\* lines 175-183
SuccessResult(zs) ==
    [success |-> TRUE, error |-> "", total_zones |-> Len(zs),
     zones |-> [i \in 1..Len(zs) |-> zone_info(zs[i])],
     zone_types |-> get_zone_type_summary(zs),
     reading_order |-> ReadingOrderIds(zs), fallback |-> FALSE]

\* lines 209-231
FallbackResult(shape) ==
    [success |-> TRUE, error |-> "", total_zones |-> 1,
     zones |-> << [zone_id |-> 1, type |-> "paragraph",
                   coordinates |-> <<0, 0, shape[2], shape[1]>>,
                   content |-> DefaultContent, confidence |-> Pct(80),
                   ocr_confidence |-> Rat(80, 1), reading_order |-> 1] >>,
     zone_types |-> [t \in {"paragraph"} |-> 1],
     reading_order |-> <<1>>, fallback |-> TRUE]

\* a failure that drops the message
FailureResultSilent(e) ==
    [success |-> FALSE, error |-> "", total_zones |-> 0, zones |-> <<>>,
     zone_types |-> <<>>, reading_order |-> <<>>, fallback |-> FALSE]

\* lines 235-242
FailureResult(e) ==
    [success |-> FALSE, error |-> e, total_zones |-> 0, zones |-> <<>>,
     zone_types |-> <<>>, reading_order |-> <<>>, fallback |-> FALSE]

\* a handler without the recovery of lines 189-233
HandlerWithoutRecovery(e, reread, io_fails) == FailureResult(e)

\* lines 185-242: reread is what the second cv2.imread returns, io_fails
\* whether os.makedirs or cv2.imwrite raises
HandlerResult(e, reread, io_fails) ==
    IF reread # None /\ ~io_fails THEN FallbackResult(reread) ELSE FailureResult(e)

(***************************************************************************)
(* The images of the model: a shape and the regions findContours may       *)
(* report in it.  box is cv2.boundingRect's rectangle (inside the image),  *)
(* roi the class of the region's pixels for stage 2, fb the outcome of     *)
(* the pixel analysis of _perform_zone_ocr on the same region.             *)
(***************************************************************************)
Region(x, y, w, h, roi, fb) == [box |-> <<x, y, w, h>>, roi |-> roi, fb |-> fb]

Shapes == {<<100, 100>>, <<300, 100>>}

Regions(shape) ==
    IF shape = <<100, 100>>
    THEN {Region(0, 0, 100, 48, "text", "dense"),
          Region(0, 50, 100, 48, "text", "detected"),
          Region(30, 40, 20, 20, "text", "raise"),
          Region(10, 10, 50, 10, "text", "graphic"),
          Region(0, 0, 100, 90, "flat", "empty"),
          Region(5, 5, 10, 4, "text", "empty"),
          Region(20, 60, 60, 8, "solid", "dense")}
    ELSE {Region(0, 245, 60, 50, "text", "dense"),
          Region(10, 250, 60, 40, "text", "empty"),
          Region(5, 100, 90, 10, "text", "detected"),
          Region(40, 150, 20, 20, "flat", "empty")}

AllRegions == UNION {Regions(shape) : shape \in Shapes}

\* the pixels of gray_image[y:y+h, x:x+w]
Roi(box) == IF \E r \in AllRegions : r.box = box
            THEN (CHOOSE r \in AllRegions : r.box = box).roi
            ELSE "text"

\* the pixel analysis of the crop of box
Fb(box) == IF \E r \in AllRegions : r.box = box
           THEN (CHOOSE r \in AllRegions : r.box = box).fb
           ELSE "empty"

\* what the invocation without configuration may return
RetryTexts == {"A\n"}

\* the outcomes of one invocation with the given configuration
Invocations(lang, texts) ==
    {Invocation(lang, TRUE, "")} \cup {Invocation(lang, FALSE, t) : t \in texts}

\* Tesseract on one crop
TessOutcomes ==
    {tesseract(imported, first, second) :
        imported \in BOOLEAN,
        first \in Invocations("fra+eng", RawTexts),
        second \in Invocations("", RetryTexts)}

\* str(e) of an exception raised inside a stage
ExceptionMessages == {"", "cv2.error"}

NotFoundMessage == "Image non trouvée"

(***************************************************************************)
(* detect_and_classify_zones, one action per step.                         *)
(***************************************************************************)
\* the handler has not run
NoRecovery == [ran |-> FALSE, reread |-> None, io_fails |-> FALSE]

\* the detector has served no call yet
NoPrevious == [called |-> FALSE, result |-> None, zones |-> <<>>,
               contours |-> <<>>, ocr_log |-> <<>>]

\* _classify_zone_semantically has not been called directly
NoCall == [text |-> "", bbox |-> <<0, 0, 0, 0>>, done |-> FALSE, type |-> ""]

\* lines 247-283: what cv2.findContours reports for the image; the same
\* pixels give the same contours, so a second call on the same file sees
\* what the first call saw
Findings ==
    IF previous.called THEN {previous.contours}
    ELSE DistinctSeqs(Regions(image), MaxContours)

\* lines 405-428: what Tesseract does on the crop of box.  A deterministic
\* engine repeats on a crop what it did on it in the earlier call; the
\* import of line 406 fails for every box of a call or for none.
Recognitions(box) ==
    LET seen == {i \in 1..Len(previous.ocr_log) : previous.ocr_log[i].box = box}
        missing == {t \in TessOutcomes : t.calls = <<>>}
    IN IF previous.called /\ seen # {}
       THEN {previous.ocr_log[i].tess : i \in seen}
       ELSE IF ocr_log = <<>> THEN TessOutcomes
       ELSE IF ocr_log[1].tess.calls = <<>> THEN missing
       ELSE TessOutcomes \ missing

Init ==
    /\ pc = "load"
    /\ file \in Shapes \cup {None}
    /\ image = None
    /\ image_shape = None
    /\ contours = <<>>
    /\ candidate_zones = <<>>
    /\ text_zones = <<>>
    /\ classified_zones = <<>>
    /\ ocr_log = <<>>
    /\ merged_zones = <<>>
    /\ clusters = <<>>
    /\ ordered_zones = <<>>
    /\ final_zones = <<>>
    /\ zones = <<>>
    /\ stages = <<>>
    /\ error = ""
    /\ result = None
    /\ recovery = NoRecovery
    /\ previous = NoPrevious
    /\ call = NoCall

\* the locals of the try block are out of reach of the handler
Unwind ==
    /\ image' = None
    /\ contours' = <<>>
    /\ candidate_zones' = <<>>
    /\ text_zones' = <<>>
    /\ classified_zones' = <<>>
    /\ ocr_log' = <<>>
    /\ merged_zones' = <<>>
    /\ clusters' = <<>>
    /\ ordered_zones' = <<>>
    /\ final_zones' = <<>>

\* lines 116-121, the image is read
LoadImage ==
    /\ pc = "load"
    /\ file # None
    /\ image' = file
    /\ image_shape' = file
    /\ pc' = "detect"
    /\ UNCHANGED <<file, contours, candidate_zones, text_zones, classified_zones,
                   ocr_log, merged_zones, clusters, ordered_zones, final_zones,
                   zones, stages, error, result, recovery,
                   previous, call>>

\* lines 116-118, cv2.imread returns None: FileNotFoundError
LoadFails ==
    /\ pc = "load"
    /\ file = None
    /\ error' = NotFoundMessage
    /\ pc' = "handler"
    /\ UNCHANGED <<file, image, image_shape, contours, candidate_zones, text_zones,
                   classified_zones, ocr_log, merged_zones, clusters, ordered_zones,
                   final_zones, zones, stages, result, recovery,
                   previous, call>>

\* line 124
DetectCandidates ==
    /\ pc = "detect"
    /\ \E found \in Findings :
        /\ contours' = found
        /\ candidate_zones' =
             detect_candidate_zones([i \in 1..Len(found) |-> found[i].box],
                                    image[1], image[2])
    /\ stages' = Append(stages, "CandidateDetector")
    /\ pc' = "filter"
    /\ UNCHANGED <<file, image, image_shape, text_zones, classified_zones, ocr_log,
                   merged_zones, clusters, ordered_zones, final_zones, zones,
                   error, result, recovery,
                   previous, call>>

\* line 130
FilterShapes ==
    /\ pc = "filter"
    /\ text_zones' = filter_geometric_shapes(candidate_zones,
                          [box \in Range(candidate_zones) |-> Roi(box)], image_shape)
    /\ stages' = Append(stages, "GeometricFilter")
    /\ pc' = "classify"
    /\ UNCHANGED <<file, image, image_shape, contours, candidate_zones,
                   classified_zones, ocr_log, merged_zones, clusters,
                   ordered_zones, final_zones, zones, error, result, recovery,
                   previous, call>>

\* lines 364-396, one iteration of the loop of _classify_zones_with_ocr
ClassifyBox ==
    /\ pc = "classify"
    /\ Len(classified_zones) < Len(text_zones)
    /\ LET i == Len(classified_zones)
           box == text_zones[i + 1]
       IN \E tess \in Recognitions(box) :
            /\ classified_zones' =
                 Append(classified_zones, classify_box(i, box, tess, Fb(box), image_shape))
            /\ ocr_log' = Append(ocr_log, [box |-> box, tess |-> tess, fb |-> Fb(box),
                                           ocr |-> perform_zone_ocr(tess, Fb(box))])
    /\ UNCHANGED <<pc, file, image, image_shape, contours, candidate_zones,
                   text_zones, merged_zones, clusters, ordered_zones, final_zones,
                   zones, stages, error, result, recovery,
                   previous, call>>

\* line 398, the loop is over
ClassifyDone ==
    /\ pc = "classify"
    /\ Len(classified_zones) = Len(text_zones)
    /\ stages' = Append(stages, "SemanticClassifier")
    /\ pc' = "merge"
    /\ UNCHANGED <<file, image, image_shape, contours, candidate_zones, text_zones,
                   classified_zones, ocr_log, merged_zones, clusters, ordered_zones,
                   final_zones, zones, error, result, recovery,
                   previous, call>>

\* line 142
MergeZones ==
    /\ pc = "merge"
    /\ merged_zones' = merge_similar_zones(classified_zones)
    /\ clusters' = IF Len(classified_zones) <= 1 THEN <<>>
                   ELSE MergeCandidates(classified_zones, 1, {})
    /\ stages' = Append(stages, "ZoneMerger")
    /\ pc' = "order"
    /\ UNCHANGED <<file, image, image_shape, contours, candidate_zones, text_zones,
                   classified_zones, ocr_log, ordered_zones, final_zones, zones,
                   error, result, recovery,
                   previous, call>>

\* a resolver that is handed the classifier's list, not the merger's
OrderZonesOfClassified ==
    /\ pc = "order"
    /\ ordered_zones' = determine_reading_order(classified_zones)
    /\ stages' = Append(stages, "ReadingOrderResolver")
    /\ pc' = "validate"
    /\ UNCHANGED <<file, image, image_shape, contours, candidate_zones, text_zones,
                   classified_zones, ocr_log, merged_zones, clusters, final_zones,
                   zones, error, result, recovery, previous, call>>

\* line 146.  sorted() returns a new list of the same Zone objects, so the
\* elements of merged_zones get their reading_order too; the entry point
\* does not read merged_zones again.
OrderZones ==
    /\ pc = "order"
    /\ ordered_zones' = determine_reading_order(merged_zones)
    /\ stages' = Append(stages, "ReadingOrderResolver")
    /\ pc' = "validate"
    /\ UNCHANGED <<file, image, image_shape, contours, candidate_zones, text_zones,
                   classified_zones, ocr_log, merged_zones, clusters, final_zones,
                   zones, error, result, recovery,
                   previous, call>>

\* line 150
ValidateZones ==
    /\ pc = "validate"
    /\ final_zones' = final_validation(ordered_zones, image_shape)
    /\ stages' = Append(stages, "Validator")
    /\ pc' = "default"
    /\ UNCHANGED <<file, image, image_shape, contours, candidate_zones, text_zones,
                   classified_zones, ocr_log, merged_zones, clusters, ordered_zones,
                   zones, error, result, recovery,
                   previous, call>>

\* lines 155-170
DefaultZone ==
    /\ pc = "default"
    /\ final_zones' = DefaultIfEmpty(final_zones, image)
    /\ zones' = DefaultIfEmpty(final_zones, image)
    /\ pc' = "save"
    /\ UNCHANGED <<file, image, image_shape, contours, candidate_zones, text_zones,
                   classified_zones, ocr_log, merged_zones, clusters, ordered_zones,
                   stages, error, result, recovery,
                   previous, call>>

\* lines 173-183, _save_results returns
SaveAndReturn ==
    /\ pc = "save"
    /\ result' = SuccessResult(final_zones)
    /\ pc' = "done"
    /\ UNCHANGED <<file, image, image_shape, contours, candidate_zones, text_zones,
                   classified_zones, ocr_log, merged_zones, clusters, ordered_zones,
                   final_zones, zones, stages, error, recovery,
                   previous, call>>

\* an exception out of a stage or out of _save_results (an OpenCV error, a
\* failed write): line 185 catches it
StageRaises ==
    /\ pc \in {"detect", "filter", "classify", "merge", "order", "validate", "save"}
    /\ \E e \in ExceptionMessages : error' = e
    /\ Unwind
    /\ pc' = "handler"
    /\ UNCHANGED <<file, image_shape, zones, stages, result, recovery,
                   previous, call>>

\* lines 185-242
Handler ==
    /\ pc = "handler"
    /\ \E io_fails \in BOOLEAN :
        /\ result' = HandlerResult(error, file, io_fails)
        /\ recovery' = [ran |-> TRUE, reread |-> file, io_fails |-> io_fails]
    /\ pc' = "done"
    /\ UNCHANGED <<file, image, image_shape, contours, candidate_zones, text_zones,
                   classified_zones, ocr_log, merged_zones, clusters, ordered_zones,
                   final_zones, zones, stages, error,
                   previous, call>>

Next ==
    \/ LoadImage
    \/ LoadFails
    \/ DetectCandidates
    \/ FilterShapes
    \/ ClassifyBox
    \/ ClassifyDone
    \/ MergeZones
    \/ OrderZones
    \/ ValidateZones
    \/ DefaultZone
    \/ SaveAndReturn
    \/ StageRaises
    \/ Handler

Spec == Init /\ [][Next]_vars

(***************************************************************************)
(* A second call of detect_and_classify_zones on the same detector and    *)
(* the same file.  The object keeps self.zones and self.image_shape; the  *)
(* locals of the first call are gone.                                      *)
(***************************************************************************)
\* line 112, entered again after the first call returned
CallAgain ==
    /\ pc = "done"
    /\ ~previous.called
    /\ Len(contours) <= MaxReplayed
    /\ previous' = [called |-> TRUE, result |-> result, zones |-> zones,
                    contours |-> contours, ocr_log |-> ocr_log]
    /\ Unwind
    /\ stages' = <<>>
    /\ error' = ""
    /\ result' = None
    /\ recovery' = NoRecovery
    /\ pc' = "load"
    /\ UNCHANGED <<file, image_shape, zones, call>>

RerunNext ==
    \/ LoadImage
    \/ LoadFails
    \/ DetectCandidates
    \/ FilterShapes
    \/ ClassifyBox
    \/ ClassifyDone
    \/ MergeZones
    \/ OrderZones
    \/ ValidateZones
    \/ DefaultZone
    \/ SaveAndReturn
    \/ Handler
    \/ CallAgain

RerunSpec == Init /\ [][RerunNext]_vars

(***************************************************************************)
(* Stages 4-6 on a directly constructed input: a detector whose image is   *)
(* loaded, handed a list of classified zones.  Ids are list positions, as  *)
(* line 387 assigns them.                                                  *)
(***************************************************************************)
SyntheticShape == <<100, 100>>

Template(type, bbox, pct, content) ==
    [type |-> type, bbox |-> bbox, pct |-> pct, content |-> content]

SyntheticTemplates ==
    {Template("header", <<10, 10, 40, 20>>, 80, "FACTURE"),
     Template("footer", <<15, 12, 40, 20>>, 80, "page 1"),
     Template("signature", <<10, 10, 40, 20>>, 43, "lu"),
     Template("price", <<15, 12, 40, 20>>, 40, "12,00"),
     Template("logo", <<10, 10, 40, 20>>, 80, ""),
     Template("paragraph", <<15, 12, 40, 20>>, 80, "texte"),
     Template("unknown", <<10, 10, 40, 20>>, 40, "foo"),
     Template("unknown", <<15, 12, 40, 20>>, 43, "bar"),
     Template("unknown", <<50, 70, 30, 20>>, 80, "baz"),
     Template("noise", <<50, 70, 30, 20>>, 80, "bruit"),
     Template("unknown", <<15, 12, 40, 20>>, 73, "qux"),
     Template("unknown", <<34, 10, 40, 20>>, 40, "far"),
     Template("unknown", <<10, 10, 40, 20>>, 58, "mil"),
     Template("paragraph", <<50, 70, 30, 20>>, 3, "bas"),
     Template("header", <<0, 0, 100, 96>>, 80, "page")}

RECURSIVE TemplateSeqs(_)
TemplateSeqs(n) ==
    IF n = 0 THEN {<<>>}
    ELSE LET shorter == TemplateSeqs(n - 1)
         IN shorter \cup {Append(s, t) : s \in shorter, t \in SyntheticTemplates}

SyntheticZones(ts) ==
    [i \in 1..Len(ts) |->
        Zone(i, ts[i].type, ts[i].bbox, Pct(ts[i].pct), ts[i].content, Rat(80, 1))]

StageInit ==
    /\ pc = "merge"
    /\ file = SyntheticShape
    /\ image = SyntheticShape
    /\ image_shape = SyntheticShape
    /\ contours = <<>>
    /\ candidate_zones = <<>>
    /\ text_zones = <<>>
    /\ classified_zones \in {SyntheticZones(ts) : ts \in TemplateSeqs(MaxSynthetic)}
    /\ ocr_log = <<>>
    /\ merged_zones = <<>>
    /\ clusters = <<>>
    /\ ordered_zones = <<>>
    /\ final_zones = <<>>
    /\ zones = <<>>
    /\ stages = <<>>
    /\ error = ""
    /\ result = None
    /\ recovery = NoRecovery
    /\ previous = NoPrevious
    /\ call = NoCall

StageNext ==
    \/ MergeZones
    \/ OrderZones
    \/ ValidateZones
    \/ DefaultZone
    \/ SaveAndReturn

StageSpec == StageInit /\ [][StageNext]_vars

(***************************************************************************)
(* _classify_zone_semantically called directly, on a detector that has    *)
(* read an image of some shape or none yet (self.image_shape is None).    *)
(***************************************************************************)
\* the texts stage 3 hands over: trimmed readings and placeholders
CallTexts ==
    {"FACTURE N° 2024-01", "123,45 €", "Total ref: 12", "Date: 12/03/2024 prix",
     "12 rue signature", "signé", "45 %", "A", "", "Zone de texte dense", "lu",
     "Date: total TTC"}

\* boxes at and around the limits of the positional rules in a 100 x 100
\* image: the top 15%, the bottom 20%, half the width, width = 5 * height
CallBoxes ==
    {<<10, 10, 60, 10>>, <<10, 10, 50, 10>>, <<10, 14, 51, 10>>, <<10, 15, 60, 10>>,
     <<10, 80, 60, 10>>, <<10, 85, 60, 10>>, <<10, 81, 30, 50>>, <<30, 40, 20, 20>>,
     <<20, 40, 60, 10>>, <<20, 40, 50, 10>>}

ClassifyInit ==
    /\ pc = "call"
    /\ file = None
    /\ image = None
    /\ image_shape \in Shapes \cup {None}
    /\ contours = <<>>
    /\ candidate_zones = <<>>
    /\ text_zones = <<>>
    /\ classified_zones = <<>>
    /\ ocr_log = <<>>
    /\ merged_zones = <<>>
    /\ clusters = <<>>
    /\ ordered_zones = <<>>
    /\ final_zones = <<>>
    /\ zones = <<>>
    /\ stages = <<>>
    /\ error = ""
    /\ result = None
    /\ recovery = NoRecovery
    /\ previous = NoPrevious
    /\ call \in {[NoCall EXCEPT !.text = t, !.bbox = b] : t \in CallTexts, b \in CallBoxes}

\* line 378, the call and its return
ClassifyCall ==
    /\ pc = "call"
    /\ call' = [call EXCEPT
                   !.done = TRUE,
                   !.type = classify_zone_semantically(call.text, call.bbox[1], call.bbox[2],
                                                       call.bbox[3], call.bbox[4], image_shape)]
    /\ pc' = "returned"
    /\ UNCHANGED <<file, image, image_shape, contours, candidate_zones, text_zones,
                   classified_zones, ocr_log, merged_zones, clusters, ordered_zones,
                   final_zones, zones, stages, error, result, recovery, previous>>

ClassifyNext == ClassifyCall

ClassifySpec == ClassifyInit /\ [][ClassifyNext]_vars

(***************************************************************************)
(* Properties.                                                             *)
(***************************************************************************)
InsideImage(b, shape) ==
    /\ 0 <= b[1] /\ 0 <= b[2]
    /\ b[1] + b[3] <= shape[2] /\ b[2] + b[4] <= shape[1]
    /\ b[3] > 0 /\ b[4] > 0

\* the zone records of the returned result that come from a fused cluster
FusedRecords ==
    {<<i, k>> \in (1..Len(result.zones)) \X (1..Len(clusters)) :
        /\ Len(clusters[k]) > 1
        /\ result.zones[i].zone_id = classified_zones[clusters[k][1]].id}

\* C1: every zone of a returned result lies inside the image and has a
\* positive width and height.
C1_ZonesInsideImage ==
    (pc = "done" /\ result.success) =>
        \A i \in 1..Len(result.zones) : InsideImage(result.zones[i].coordinates, file)

\* a fused zone, with a box that is none of its members', was returned
C1_Witness ==
    /\ pc = "done" /\ result.success /\ ~result.fallback
    /\ \E p \in FusedRecords :
         result.zones[p[1]].coordinates \notin
             {classified_zones[j].bbox : j \in Range(clusters[p[2]])}

\* C2: the reading_order values of the returned zones are exactly 1..N.
C2_ReadingOrderPermutation ==
    (pc = "done" /\ result.success) =>
        {result.zones[i].reading_order : i \in 1..Len(result.zones)}
            = 1..Len(result.zones)

\* C3: every returned zone has floor <= confidence <= 1.0.
C3_ConfidenceRange ==
    (pc = "done" /\ result.success) =>
        \A i \in 1..Len(result.zones) :
            LET c == result.zones[i].confidence
            IN ConfidenceFloor * c.den <= 100 * c.num /\ c.num <= c.den

\* a fused zone was returned whose confidence is the weighted mean of
\* members with different confidences
C3_Witness ==
    /\ pc = "done" /\ result.success /\ ~result.fallback
    /\ \E p \in FusedRecords :
         result.zones[p[1]].confidence \notin
             {classified_zones[j].confidence : j \in Range(clusters[p[2]])}

\* C4: the Validator's output is non-empty whenever its input is; when every
\* input zone meets a drop criterion the output is the first input zone
\* alone, unchanged.
C4_ValidatorNonEmpty ==
    pc = "default" =>
        /\ ordered_zones # <<>> => final_zones # <<>>
        /\ final_zones = <<>> => ordered_zones = <<>>
        /\ (/\ ordered_zones # <<>>
            /\ \A i \in 1..Len(ordered_zones) : Dropped(ordered_zones[i], image_shape))
           => final_zones = <<ordered_zones[1]>>

\* several zones, all of them dropped, and the first one kept
C4_Witness ==
    /\ pc = "default"
    /\ Len(ordered_zones) >= 2
    /\ \A i \in 1..Len(ordered_zones) : Dropped(ordered_zones[i], image_shape)
    /\ final_zones = <<ordered_zones[1]>>

\* no rectangle found in the image passes the filter of stage 1
NoContourPasses ==
    \A i \in 1..Len(contours) : ~CandidateFilter(contours[i].box, image[1], image[2])

\* C5: stage 1 never returns an empty list; when no rectangle passes its
\* filter it returns the single box (0, 0, image_width, image_height).
C5_CandidatesNeverEmpty ==
    pc = "filter" =>
        /\ candidate_zones # <<>>
        /\ NoContourPasses => candidate_zones = << <<0, 0, image[2], image[1]>> >>

\* contours were found, none passed, and the full-image box was returned
C5_Witness ==
    /\ pc = "filter"
    /\ contours # <<>>
    /\ NoContourPasses
    /\ candidate_zones = << <<0, 0, image[2], image[1]>> >>

\* the recognition of the i-th box failed: Tesseract raised or read nothing
RecognitionFailed(i) ==
    \/ ~ocr_log[i].tess.ok
    \/ Strip(ocr_log[i].tess.text) = ""

PlaceholderTexts ==
    {"Zone de texte dense", "Zone de texte détectée", "Contenu graphique ou texte",
     "Zone de contenu", "Zone vide ou peu de contenu", "Erreur de traitement"}

\* C6 as claimed: a box whose recognition failed is classified as if the
\* recognizer had returned ("", 0.0).
C6_FailureAsEmptyText ==
    \A i \in 1..Len(ocr_log) :
        RecognitionFailed(i) =>
            /\ classified_zones[i].content = ""
            /\ classified_zones[i].ocr_confidence = Rat(0, 1)

\* C6 amended: a failed recognition never leaves the classifier; the box
\* becomes a zone whose content is one of the placeholder texts, with an
\* ocr_confidence in {30, 45, 50, 65, 75}, and the loop goes on to the end
\* of the list.
C6_FailureAsPlaceholder ==
    /\ Len(classified_zones) = Len(ocr_log)
    /\ \A i \in 1..Len(ocr_log) :
        RecognitionFailed(i) =>
            /\ classified_zones[i].bbox = ocr_log[i].box
            /\ classified_zones[i].content \in PlaceholderTexts
            /\ classified_zones[i].ocr_confidence \in
                   {Rat(c, 1) : c \in {30, 45, 50, 65, 75}}
    /\ pc \in {"merge", "order", "validate", "default", "save"}
           => Len(classified_zones) = Len(text_zones)

\* the recognition of the first box failed and later boxes were classified
C6_Witness ==
    /\ pc = "merge"
    /\ Len(ocr_log) >= 3
    /\ ~ocr_log[1].tess.ok
    /\ ocr_log[2].tess.ok /\ Strip(ocr_log[2].tess.text) # ""
    /\ RecognitionFailed(3)

\* the handler ran after the image had been read: a stage or the saving of
\* the results raised
StageFailed == recovery.ran /\ image_shape # None

\* C7: after an exception in a stage or in the saving of the results, the
\* call returns success with exactly one zone (the whole image, type
\* paragraph, confidence 0.8, reading_order 1); it returns success = false
\* only when the recovery itself failed.
C7_DegradedRecovery ==
    (pc = "done" /\ StageFailed) =>
        IF recovery.reread # None /\ ~recovery.io_fails
        THEN /\ result.success
             /\ result.total_zones = 1
             /\ Len(result.zones) = 1
             /\ result.zones[1].coordinates = <<0, 0, file[2], file[1]>>
             /\ result.zones[1].type = "paragraph"
             /\ result.zones[1].confidence = Pct(80)
             /\ result.zones[1].reading_order = 1
             /\ result.reading_order = <<1>>
        ELSE /\ ~result.success
             /\ result.zones = <<>>

\* the saving of the results raised after the six stages, with several
\* zones found, and the call returned the single default zone
C7_Witness ==
    /\ pc = "done" /\ StageFailed
    /\ Len(stages) = 6
    /\ Len(zones) >= 2
    /\ result.success /\ result.fallback
    /\ Len(result.zones) = 1

\* C8: a missing or unreadable image gives success = false, a non-empty
\* error string and no zone.
C8_MissingImageFails ==
    (pc = "done" /\ file = None) =>
        /\ ~result.success
        /\ result.error # ""
        /\ result.zones = <<>>
        /\ result.total_zones = 0

\* the call on a missing image returned
C8_Witness ==
    /\ pc = "done" /\ file = None
    /\ recovery.ran /\ recovery.reread = None
    /\ ~result.success

C9Pairs == {<<"header", "footer">>, <<"signature", "price">>, <<"logo", "paragraph">>}

\* the types of zones a and b of the merger's input are an incompatible pair
C9Incompatible(a, b) ==
    \E p \in C9Pairs :
        \/ classified_zones[a].type = p[1] /\ classified_zones[b].type = p[2]
        \/ classified_zones[a].type = p[2] /\ classified_zones[b].type = p[1]

\* C9: no fused cluster holds two zones whose types are (header, footer),
\* (signature, price) or (logo, paragraph), in either order.
C9_IncompatibleNeverFused ==
    pc = "order" =>
        \A k \in 1..Len(clusters) :
            \A a, b \in Range(clusters[k]) : ~C9Incompatible(a, b)

\* two close zones of similar confidence and incompatible types stayed
\* apart while one of them was fused with a third zone
C9_Witness ==
    /\ pc = "order"
    /\ \E a, b \in 1..Len(classified_zones) :
        /\ C9Incompatible(a, b)
        /\ CloseEnough(classified_zones[a].bbox, classified_zones[b].bbox)
        /\ SimilarConfidence(classified_zones[a].confidence, classified_zones[b].confidence)
        /\ \E k \in 1..Len(clusters) :
            /\ a \in Range(clusters[k])
            /\ b \notin Range(clusters[k])
            /\ Len(clusters[k]) > 1

\* C10: the box of a fused zone is the smallest rectangle enclosing every
\* member box, so its area is at least the area of each member.
C10_MergedBoxEncloses ==
    pc = "order" =>
        \A k \in 1..Len(clusters) :
            Len(clusters[k]) > 1 =>
                LET m == merged_zones[k].bbox
                    boxes == {classified_zones[j].bbox : j \in Range(clusters[k])}
                IN /\ \A b \in boxes :
                        /\ m[1] <= b[1] /\ m[2] <= b[2]
                        /\ b[1] + b[3] <= m[1] + m[3]
                        /\ b[2] + b[4] <= m[2] + m[4]
                        /\ Area(m) >= Area(b)
                   /\ \E b \in boxes : b[1] = m[1]
                   /\ \E b \in boxes : b[2] = m[2]
                   /\ \E b \in boxes : b[1] + b[3] = m[1] + m[3]
                   /\ \E b \in boxes : b[2] + b[4] = m[2] + m[4]

\* a cluster of three was fused into a box larger than each of its members
C10_Witness ==
    /\ pc = "order"
    /\ \E k \in 1..Len(clusters) :
        /\ Len(clusters[k]) >= 3
        /\ \A j \in Range(clusters[k]) :
               Area(merged_zones[k].bbox) > Area(classified_zones[j].bbox)

C12_BlankImageOneZone ==
    (pc = "done" /\ ~recovery.ran /\ NoContourPasses) =>
        /\ candidate_zones = << <<0, 0, image[2], image[1]>> >>
        /\ result.success
        /\ result.total_zones = 1
        /\ Len(result.zones) = 1
        /\ result.zones[1].reading_order = 1
        /\ result.reading_order = <<result.zones[1].zone_id>>

\* the call on an image without any contour returned
C12_Witness ==
    /\ pc = "done" /\ ~recovery.ran
    /\ contours = <<>>
    /\ Len(stages) = 6
    /\ result.success /\ Len(result.zones) = 1

\* the ids of the members of cluster k of the merger's input
MemberIds(k) == {classified_zones[j].id : j \in Range(clusters[k])}

\* C13: the zone ids of a returned result are pairwise distinct; a fused
\* zone carries the id of its first member, which is the lowest id of the
\* cluster, and no other zone of the merger's output or of the result
\* carries the id of a member of that cluster.
C13_DistinctIds ==
    /\ (pc = "done" /\ result.success) =>
           \A i, j \in 1..Len(result.zones) :
               i # j => result.zones[i].zone_id # result.zones[j].zone_id
    /\ \A k \in 1..Len(clusters) :
           Len(clusters[k]) > 1 =>
               /\ merged_zones[k].id = classified_zones[clusters[k][1]].id
               /\ \A id \in MemberIds(k) : merged_zones[k].id <= id
               /\ \A k2 \in 1..Len(merged_zones) :
                      k2 # k => merged_zones[k2].id \notin MemberIds(k)
               /\ (pc = "done" /\ result.success /\ ~recovery.ran) =>
                      \A i \in 1..Len(result.zones) :
                          result.zones[i].zone_id \in MemberIds(k)
                              => result.zones[i].zone_id = merged_zones[k].id

\* a result with a fused zone and a zone that stayed alone
C13_Witness ==
    /\ pc = "done" /\ result.success /\ ~recovery.ran
    /\ Len(result.zones) >= 2
    /\ \E p \in FusedRecords : Len(clusters[p[2]]) >= 2

\* the position of a type in the declaration order of the pattern table
TableIndex(type) == CHOOSE k \in 1..Len(semantic_patterns) : semantic_patterns[k] = type

\* C14: a text in which a pattern of the table is found gets the type of
\* the first matching entry in declaration order, wherever its box lies;
\* "FACTURE N° 2024-01" is a header in every box.
C14_PatternBeforePosition ==
    call.done =>
        /\ PatternMatches(call.text) # {} =>
               /\ call.type \in PatternMatches(call.text)
               /\ \A t \in PatternMatches(call.text) : TableIndex(call.type) <= TableIndex(t)
        /\ call.text = "FACTURE N° 2024-01" => call.type = "header"

\* "FACTURE N° 2024-01" at y = 10 over 60% of the width of a 100 x 100
\* image was classified
C14_Witness ==
    /\ call.done
    /\ image_shape = <<100, 100>>
    /\ call.text = "FACTURE N° 2024-01"
    /\ call.bbox = <<10, 10, 60, 10>>
    /\ call.type = "header"

\* the merger's input is two close zones of type unknown, with the
\* confidences 0.40 and 0.43 and non-blank contents
ScenarioD ==
    /\ Len(classified_zones) = 2
    /\ classified_zones[1].type = "unknown" /\ classified_zones[2].type = "unknown"
    /\ {classified_zones[1].confidence, classified_zones[2].confidence} = {Pct(40), Pct(43)}
    /\ CloseEnough(classified_zones[1].bbox, classified_zones[2].bbox)
    /\ Strip(classified_zones[1].content) # "" /\ Strip(classified_zones[2].content) # ""

\* C15: two close zones of type unknown with the confidences 0.40 and 0.43
\* are fused into exactly one zone, whose content is the content of the
\* first, a single space, and the content of the second.
C15_ScenarioDFused ==
    (pc = "order" /\ ScenarioD) =>
        /\ Len(merged_zones) = 1
        /\ merged_zones[1].type = "unknown"
        /\ merged_zones[1].content =
               classified_zones[1].content \o " " \o classified_zones[2].content

\* "foo" at 0.40 and "bar" at 0.43 became "foo bar"
C15_Witness ==
    /\ pc = "order" /\ ScenarioD
    /\ classified_zones[1].confidence = Pct(40)
    /\ classified_zones[1].content = "foo" /\ classified_zones[2].content = "bar"
    /\ Len(merged_zones) = 1
    /\ merged_zones[1].content = "foo bar"

\* a candidate box that covers more than 80% of the image or whose pixels
\* have a uniform intensity
LargeOrUniform(box) ==
    \/ 5 * Area(box) > 4 * (image[1] * image[2])
    \/ Roi(box) = "flat"

\* C16: a candidate box that covers 90% of the image with a uniform
\* intensity (more generally, more than 80% of it, or any uniform box) is
\* not in the output of stage 2, _perform_zone_ocr is never called on it
\* and no classified zone has that box.
C16_UniformBoxNeverClassified ==
    \A box \in Range(candidate_zones) :
        LargeOrUniform(box) =>
            /\ pc \notin {"detect", "filter"} => box \notin Range(text_zones)
            /\ \A i \in 1..Len(ocr_log) : ocr_log[i].box # box
            /\ \A i \in 1..Len(classified_zones) : classified_zones[i].bbox # box

\* the uniform box over 90% of a 100 x 100 image was a candidate, and the
\* classifier ran on the other candidates
C16_Witness ==
    /\ pc = "merge"
    /\ <<0, 0, 100, 90>> \in Range(candidate_zones)
    /\ Roi(<<0, 0, 100, 90>>) = "flat"
    /\ Len(classified_zones) >= 2
    /\ Len(ocr_log) = Len(text_zones)

\* C17 as claimed: Tesseract is invoked at most once on the crop of a box.
C17_EngineInvokedOnce ==
    \A i \in 1..Len(ocr_log) : Len(ocr_log[i].tess.calls) <= 1

\* C17 amended: _perform_zone_ocr is called once per filtered box, in list
\* order; inside it Tesseract is invoked with lang='fra+eng' and, only when
\* that invocation raised, once more without configuration: at most two
\* invocations per box, and none after an invocation that returned.
C17_OneRetryAfterException ==
    /\ Len(ocr_log) <= Len(text_zones)
    /\ \A i \in 1..Len(ocr_log) :
        LET calls == ocr_log[i].tess.calls
        IN /\ ocr_log[i].box = text_zones[i]
           /\ Len(calls) <= 2
           /\ Len(calls) >= 1 => calls[1].lang = "fra+eng"
           /\ Len(calls) = 2 => calls[1].raised /\ calls[2].lang = ""
           /\ \A k \in 1..Len(calls) : ~calls[k].raised => k = Len(calls)

\* Tesseract raised on the first box and read a text when asked again; on
\* the second box it returned at once
C17_Witness ==
    /\ pc = "merge"
    /\ Len(ocr_log) >= 2
    /\ Len(ocr_log[1].tess.calls) = 2
    /\ ocr_log[1].tess.calls[1].raised /\ ~ocr_log[1].tess.calls[2].raised
    /\ classified_zones[1].content = Strip(ocr_log[1].tess.calls[2].text)
    /\ Len(ocr_log[2].tess.calls) = 1

\* the six stages, in the order of lines 123-150
StageNames == <<"CandidateDetector", "GeometricFilter", "SemanticClassifier",
                "ZoneMerger", "ReadingOrderResolver", "Validator">>

\* box a lies inside box b
Inside(a, b) ==
    /\ b[1] <= a[1] /\ b[2] <= a[2]
    /\ a[1] + a[3] <= b[1] + b[3] /\ a[2] + a[4] <= b[2] + b[4]

\* C18: the stages complete in the order CandidateDetector, GeometricFilter,
\* SemanticClassifier, ZoneMerger, ReadingOrderResolver, Validator, none
\* skipped and none twice, all six in a call that returns without the
\* handler; a stage has no output before the stage before it has completed
\* over its whole list, and each stage works on the output of the stage
\* before it.
C18_StagesInOrder ==
    /\ Len(stages) <= 6
    /\ \A k \in 1..Len(stages) : stages[k] = StageNames[k]
    /\ (pc = "done" /\ ~recovery.ran) => stages = StageNames
    /\ Len(stages) < 1 => candidate_zones = <<>> /\ text_zones = <<>>
    /\ Len(stages) < 2 => text_zones = <<>> /\ classified_zones = <<>> /\ ocr_log = <<>>
    /\ Len(stages) < 3 => merged_zones = <<>> /\ clusters = <<>>
    /\ Len(stages) < 4 => ordered_zones = <<>>
    /\ Len(stages) < 5 => final_zones = <<>>
    /\ (Len(stages) < 6 /\ ~recovery.ran) => zones = <<>> /\ result = None
    /\ Len(stages) >= 3 => Len(classified_zones) = Len(text_zones)
    /\ Range(text_zones) \subseteq Range(candidate_zones)
    /\ \A i \in 1..Len(classified_zones) : classified_zones[i].bbox = text_zones[i]
    /\ Len(stages) >= 4 =>
           /\ \A k \in 1..Len(merged_zones) :
                  \E i \in 1..Len(classified_zones) :
                      /\ classified_zones[i].id = merged_zones[k].id
                      /\ Inside(classified_zones[i].bbox, merged_zones[k].bbox)
           /\ \A i \in 1..Len(classified_zones) :
                  \E k \in 1..Len(merged_zones) :
                      Inside(classified_zones[i].bbox, merged_zones[k].bbox)
    /\ Len(stages) >= 5 =>
           /\ Len(ordered_zones) = Len(merged_zones)
           /\ \A k \in 1..Len(ordered_zones) :
                  [ordered_zones[k] EXCEPT !.reading_order = 0] \in Range(merged_zones)
    /\ pc = "default" => Range(final_zones) \subseteq Range(ordered_zones)

\* a call went through the six stages and returned; the filter dropped a
\* candidate and the merger fused two zones
C18_Witness ==
    /\ pc = "done" /\ ~recovery.ran
    /\ stages = StageNames
    /\ Len(text_zones) < Len(candidate_zones)
    /\ Len(merged_zones) < Len(classified_zones)
    /\ Len(ordered_zones) = Len(merged_zones)

\* the clusters that hold zone j of the merger's input
ClustersOf(j) == {k \in 1..Len(clusters) : j \in Range(clusters[k])}

\* C19: the merger partitions its input: every input zone is in exactly one
\* cluster, once; a cluster is seeded by its lowest index, which no earlier
\* cluster holds; the clusters come in increasing order of their seeds, one
\* output zone per cluster, a cluster of one zone giving that zone
\* unchanged.
C19_MergerPartitions ==
    pc = "order" =>
        IF Len(classified_zones) <= 1
        THEN merged_zones = classified_zones
        ELSE /\ \A j \in 1..Len(classified_zones) : Cardinality(ClustersOf(j)) = 1
             /\ \A k \in 1..Len(clusters) :
                    /\ clusters[k] # <<>>
                    /\ Cardinality(Range(clusters[k])) = Len(clusters[k])
                    /\ Range(clusters[k]) \subseteq 1..Len(classified_zones)
                    /\ \A m \in 2..Len(clusters[k]) : clusters[k][1] < clusters[k][m]
                    /\ \A k2 \in 1..(k - 1) :
                           /\ clusters[k2][1] < clusters[k][1]
                           /\ clusters[k][1] \notin Range(clusters[k2])
             /\ Len(merged_zones) = Len(clusters)
             /\ \A k \in 1..Len(clusters) :
                    /\ merged_zones[k].id = classified_zones[clusters[k][1]].id
                    /\ Len(clusters[k]) = 1 =>
                           merged_zones[k] = classified_zones[clusters[k][1]]

\* the first zone took the third one, which the second zone could have
\* taken too; the second stayed alone and the third seeded nothing
C19_Witness ==
    /\ pc = "order"
    /\ Len(classified_zones) = 3
    /\ clusters = << <<1, 3>>, <<2>> >>
    /\ should_merge_zones(classified_zones[2], classified_zones[3])

\* distance < 0.8 * s with s = ((w1 + h1) + (w2 + h2)) / 4, between the
\* centres of two boxes: squared, with centres and s cleared of fractions
\* (4 * distance^2 < 0.16 * (4 * s)^2)
C20Near(b1, b2) ==
    LET cx1 == 2 * b1[1] + b1[3]
        cy1 == 2 * b1[2] + b1[4]
        cx2 == 2 * b2[1] + b2[3]
        cy2 == 2 * b2[2] + b2[4]
        s4 == (b1[3] + b1[4]) + (b2[3] + b2[4])
    IN 100 * ((cx1 - cx2) * (cx1 - cx2) + (cy1 - cy2) * (cy1 - cy2)) < 16 * s4 * s4

\* |conf1 - conf2| < 0.3
C20ConfidenceBelowLimit(c1, c2) ==
    LET diff == c1.num * c2.den - c2.num * c1.den
    IN /\ 10 * diff < 3 * c1.den * c2.den
       /\ 10 * (0 - diff) < 3 * c1.den * c2.den

\* the three-part condition of the claim
C20Condition(z1, z2) ==
    /\ C20Near(z1.bbox, z2.bbox)
    /\ z1.type = z2.type
    /\ C20ConfidenceBelowLimit(z1.confidence, z2.confidence)

\* C20: for two input zones whose types are not an incompatible pair the
\* merge predicate is true exactly when the distance between the centres
\* is below 0.8 * s, the types are equal and the confidences differ by
\* less than 0.3; it gives the same answer for (z1, z2) and (z2, z1); and
\* the first seed takes exactly the later zones for which it is true.
C20_MergePredicate ==
    pc = "order" =>
        \A i, j \in 1..Len(classified_zones) :
            (i # j /\ ~C9Incompatible(i, j)) =>
                /\ should_merge_zones(classified_zones[i], classified_zones[j])
                       <=> C20Condition(classified_zones[i], classified_zones[j])
                /\ should_merge_zones(classified_zones[i], classified_zones[j])
                       <=> should_merge_zones(classified_zones[j], classified_zones[i])
                /\ (i = 1 /\ j > 1) =>
                       (j \in Range(clusters[1])
                           <=> C20Condition(classified_zones[1], classified_zones[j]))

\* the first zone met a zone at exactly 0.8 * s, a zone of its type at a
\* confidence 0.3 away or more, and took neither; a third pair was fused
C20_Witness ==
    /\ pc = "order"
    /\ Len(classified_zones) = 3
    /\ \E i, j \in 1..3 :
         /\ i < j
         /\ classified_zones[i].type = classified_zones[j].type
         /\ classified_zones[i].confidence = classified_zones[j].confidence
         /\ LET b1 == classified_zones[i].bbox
                b2 == classified_zones[j].bbox
            IN 100 * (((2 * b1[1] + b1[3]) - (2 * b2[1] + b2[3]))
                        * ((2 * b1[1] + b1[3]) - (2 * b2[1] + b2[3]))
                      + ((2 * b1[2] + b1[4]) - (2 * b2[2] + b2[4]))
                        * ((2 * b1[2] + b1[4]) - (2 * b2[2] + b2[4])))
                  = 16 * (b1[3] + b1[4] + b2[3] + b2[4]) * (b1[3] + b1[4] + b2[3] + b2[4])
         /\ ClustersOf(i) # ClustersOf(j)
    /\ \E k \in 1..Len(clusters) : Len(clusters[k]) = 2

\* the types in increasing priority: header = 1, ..., unknown = 15, noise = 16
C21Types == <<"header", "title", "subtitle", "date", "reference", "address",
              "paragraph", "list", "table", "price", "form_field", "signature",
              "footer", "logo", "unknown", "noise">>

\* the key (typePriority, y // 50, x // 50), a tag outside the table at 15
C21Key(z) ==
    LET at == {k \in 1..Len(C21Types) : C21Types[k] = z.type}
    IN <<IF at = {} THEN 15 ELSE CHOOSE k \in at : TRUE,
         z.bbox[2] \div 50, z.bbox[1] \div 50>>

\* key a is not greater than key b, as tuples
C21KeyLeq(a, b) ==
    \/ a[1] < b[1]
    \/ a[1] = b[1] /\ a[2] < b[2]
    \/ a[1] = b[1] /\ a[2] = b[2] /\ a[3] <= b[3]

\* the place in the resolver's input of the zone with this id
C21InputPlace(id) == CHOOSE i \in 1..Len(merged_zones) : merged_zones[i].id = id

\* C21: after ReadingOrderResolver the zones are listed in non-decreasing
\* order of the key (typePriority, y // 50, x // 50), zones with equal keys
\* keep the relative order they had in the input, and the zone at list
\* position k (1-based) has reading_order k.
C21_SortedStableNumbered ==
    pc = "validate" =>
        /\ \A k \in 1..Len(ordered_zones) : ordered_zones[k].reading_order = k
        /\ \A k, m \in 1..Len(ordered_zones) :
               k < m =>
                   /\ C21KeyLeq(C21Key(ordered_zones[k]), C21Key(ordered_zones[m]))
                   /\ C21Key(ordered_zones[k]) = C21Key(ordered_zones[m]) =>
                          C21InputPlace(ordered_zones[k].id)
                              < C21InputPlace(ordered_zones[m].id)

\* three zones came in with the first and the last sharing a key and a
\* zone of higher priority between them: it moved to the front and the two
\* kept their order
C21_Witness ==
    /\ pc = "validate"
    /\ Len(merged_zones) = 3 /\ Len(ordered_zones) = 3
    /\ C21Key(merged_zones[1]) = C21Key(merged_zones[3])
    /\ C21Key(merged_zones[2])[1] < C21Key(merged_zones[1])[1]
    /\ ordered_zones[1].id = merged_zones[2].id
    /\ ordered_zones[2].id = merged_zones[1].id
    /\ ordered_zones[3].id = merged_zones[3].id

\* the drop criteria of the validator: confidence below 0.05, area ratio
\* below 0.00001 or above 0.95, blank content, type noise
C22Criterion(z) ==
    \/ 100 * z.confidence.num < 5 * z.confidence.den
    \/ 100000 * Area(z.bbox) < image_shape[1] * image_shape[2]
    \/ 100 * Area(z.bbox) > 95 * (image_shape[1] * image_shape[2])
    \/ Strip(z.content) = ""
    \/ z.type = "noise"

\* every zone of the validator's input meets a drop criterion
C22LastResort ==
    /\ ordered_zones # <<>>
    /\ \A i \in 1..Len(ordered_zones) : C22Criterion(ordered_zones[i])

\* C22: the Validator only removes zones: its output is a subsequence of
\* its input, in the same order and with every field unchanged (the
\* reading_order too), and, outside the last-resort fallback, a zone is
\* missing from the output exactly when its confidence is below the floor,
\* its area ratio is outside the bounds, its trimmed content is empty or
\* its type is noise.
C22_ValidatorOnlyRemoves ==
    pc = "default" =>
        /\ \A k \in 1..Len(final_zones) :
               /\ final_zones[k].reading_order \in 1..Len(ordered_zones)
               /\ final_zones[k] = ordered_zones[final_zones[k].reading_order]
        /\ \A k \in 2..Len(final_zones) :
               final_zones[k - 1].reading_order < final_zones[k].reading_order
        /\ ~C22LastResort =>
               \A i \in 1..Len(ordered_zones) :
                   C22Criterion(ordered_zones[i])
                       <=> ordered_zones[i] \notin Range(final_zones)

\* of three zones the second was dropped for its confidence (0.03) and
\* the third kept its reading_order 3
C22_Witness ==
    /\ pc = "default"
    /\ Len(ordered_zones) = 3
    /\ ordered_zones[2].confidence = Pct(3)
    /\ Strip(ordered_zones[2].content) # "" /\ ordered_zones[2].type # "noise"
    /\ Len(final_zones) = 2
    /\ final_zones[1].reading_order = 1
    /\ final_zones[2].reading_order = 3

\* the declaration order of the pattern table
C23Order == <<"header", "date", "price", "address", "reference", "signature">>

C23Place(type) == CHOOSE k \in 1..Len(C23Order) : C23Order[k] = type

\* C23: the types of the pattern table are tested in the order header,
\* date, price, address, reference, signature and the first type with a
\* matching pattern is the result: a text in which patterns of several
\* types are found gets the earliest of them, also when a later type has
\* more matching patterns.
C23_FirstDeclaredTypeWins ==
    /\ semantic_patterns = C23Order
    /\ (call.done /\ Len(Strip(call.text)) >= 2) =>
           \A t \in PatternMatches(call.text) :
               /\ call.type \in PatternMatches(call.text)
               /\ C23Place(call.type) <= C23Place(t)
    /\ (call.done /\ call.text = "Date: total TTC") => call.type = "date"
    /\ (call.done /\ call.text = "Total ref: 12") => call.type = "price"
    /\ (call.done /\ call.text = "12 rue signature") => call.type = "address"

\* "Date: total TTC", with one pattern of date and two of price, was
\* classified as a date
C23_Witness ==
    /\ call.done
    /\ call.text = "Date: total TTC"
    /\ PatternMatches(call.text) = {"date", "price"}
    /\ MatchingPatterns(call.text, "date") < MatchingPatterns(call.text, "price")
    /\ call.type = "date"

\* the call falls through to the positional rules: no pattern is found in
\* the text and its trimmed length is at least 2
C24Positional ==
    /\ call.done
    /\ PatternMatches(call.text) = {}
    /\ Len(Strip(call.text)) >= 2

\* the height and width the rules measure against: the image's, and 1000
\* for a detector that has read no image
C24Height == IF image_shape # None THEN image_shape[1] ELSE 1000
C24Width == IF image_shape # None THEN image_shape[2] ELSE 1000

\* the priority list of the positional rules; wide says whether a box in
\* the top band counts as wide
C24Rules(wide) ==
    LET y == call.bbox[2]
        w == call.bbox[3]
        h == call.bbox[4]
    IN IF 100 * y < 15 * C24Height
       THEN (IF wide THEN "header" ELSE "reference")
       ELSE IF 100 * y > 80 * C24Height
       THEN (IF h < 50 THEN "footer" ELSE "signature")
       ELSE IF 10 * DigitCount(call.text) > 3 * Len(call.text) /\ HasSymbol(call.text)
       THEN "price"
       ELSE IF w > 5 * h THEN "paragraph"
       ELSE "unknown"

\* C24 as claimed: a box in the top 15% whose width is at least 50% of the
\* image width is a header; in particular at exactly 50%.
C24_HalfWidthIsHeader ==
    C24Positional => call.type = C24Rules(100 * call.bbox[3] >= 50 * C24Width)

\* C24 amended: with no pattern found and a trimmed length of at least 2,
\* top 15% and width above 50% of the image width -> header; top 15% and
\* width at most 50% -> reference; bottom 20% and height < 50 -> footer;
\* bottom 20% and taller -> signature; digit ratio > 0.3 with a symbol ->
\* price; width / height > 5 -> paragraph; else unknown.  A top-band box
\* at exactly 50% of the width is a reference, and the position rules win
\* over the price and paragraph rules.
C24_PositionalPriority ==
    C24Positional =>
        /\ call.type = C24Rules(100 * call.bbox[3] > 50 * C24Width)
        /\ (100 * call.bbox[2] < 15 * C24Height /\ 2 * call.bbox[3] = C24Width)
               => call.type = "reference"
        /\ call.type \in {"price", "paragraph", "unknown"} =>
               /\ 100 * call.bbox[2] >= 15 * C24Height
               /\ 100 * call.bbox[2] <= 80 * C24Height

\* "45 %", a price by its digits, in a top-band box of exactly half the
\* width of a 100 x 100 image, was classified as a reference
C24_Witness ==
    /\ call.done
    /\ image_shape = <<100, 100>>
    /\ call.text = "45 %"
    /\ call.bbox = <<10, 10, 50, 10>>
    /\ call.type = "reference"

\* C25: a text whose trimmed length is below 2, the empty text included,
\* has no pattern of the table in it and is classified unknown, whatever
\* the position and the dimensions of its box.
C25_ShortTextUnknown ==
    (call.done /\ Len(Strip(call.text)) < 2) =>
        /\ PatternMatches(call.text) = {}
        /\ call.type = "unknown"

\* the one-letter text "A" in a wide box of the top band of a 100 x 100
\* image, a header by its position, was classified unknown
C25_Witness ==
    /\ call.done
    /\ image_shape = <<100, 100>>
    /\ call.text = "A"
    /\ call.bbox = <<10, 10, 60, 10>>
    /\ classify_by_position(call.text, 10, 10, 60, 10, image_shape) = "header"
    /\ call.type = "unknown"

\* a zone as it was before the resolver numbered it
C26Unnumbered(z) == [z EXCEPT !.reading_order = 0]

\* C26: right after ReadingOrderResolver, before the Validator, the output
\* holds exactly the zones of the input, none added, lost or repeated, with
\* id, bbox, type, content and confidences unchanged; their reading_order
\* values are exactly 1..N, each once; an empty input gives an empty
\* output.
C26_ResolverPermutes ==
    pc = "validate" =>
        /\ Len(ordered_zones) = Len(merged_zones)
        /\ {C26Unnumbered(ordered_zones[k]) : k \in 1..Len(ordered_zones)}
               = Range(merged_zones)
        /\ \A k, m \in 1..Len(ordered_zones) :
               k # m => /\ ordered_zones[k].id # ordered_zones[m].id
                        /\ ordered_zones[k].reading_order # ordered_zones[m].reading_order
        /\ {ordered_zones[k].reading_order : k \in 1..Len(ordered_zones)}
               = 1..Len(merged_zones)
        /\ merged_zones = <<>> => ordered_zones = <<>>

\* the resolver moved zones: three zones came in, two of them with the
\* same key, and left in another order, numbered 1, 2, 3
C26_Witness ==
    /\ pc = "validate"
    /\ Len(merged_zones) = 3
    /\ \E a, b \in 1..3 : a # b /\ sort_key(merged_zones[a]) = sort_key(merged_zones[b])
    /\ [k \in 1..3 |-> ordered_zones[k].id] # [k \in 1..3 |-> merged_zones[k].id]
    /\ [k \in 1..3 |-> ordered_zones[k].reading_order] = <<1, 2, 3>>

\* confidence a is at most confidence b
C27Leq(a, b) == a.num * b.den <= b.num * a.den

\* the confidence is below the Validator's floor, 0.05
C27BelowValidatorFloor(c) == 100 * c.num < 5 * c.den

C28FallbackFired ==
    /\ pc \in {"filter", "classify", "merge", "order", "validate", "default",
               "save", "done"}
    /\ ~recovery.ran
    /\ NoContourPasses
    /\ candidate_zones = << <<0, 0, image[2], image[1]>> >>

\* C28: when the fallback of stage 1 emits the full-image box, stage 2
\* rejects it (it covers the whole image, above the limit of 80%), the
\* recognizer is never called, stages 3 to 6 run on empty lists and return
\* empty lists, and the one zone returned is the default zone of the entry
\* point: id 1, type paragraph, confidence 0.8, reading_order 1, the
\* full-image box.
C28_FallbackBoxBecomesDefault ==
    C28FallbackFired =>
        /\ 5 * Area(candidate_zones[1]) > 4 * (image_shape[1] * image_shape[2])
        /\ text_zones = <<>>
        /\ ocr_log = <<>> /\ classified_zones = <<>>
        /\ merged_zones = <<>> /\ clusters = <<>> /\ ordered_zones = <<>>
        /\ pc \in {"filter", "classify", "merge", "order", "validate", "default"}
               => final_zones = <<>> /\ zones = <<>>
        /\ pc \in {"save", "done"} =>
               /\ stages = StageNames
               /\ Len(final_zones) = 1 /\ zones = final_zones
               /\ final_zones[1].id = 1
               /\ final_zones[1].type = "paragraph"
               /\ final_zones[1].confidence = Pct(80)
               /\ final_zones[1].reading_order = 1
               /\ final_zones[1].bbox = <<0, 0, file[2], file[1]>>
               /\ final_zones[1].content = DefaultContent
        /\ pc = "done" =>
               /\ result.success /\ ~result.fallback
               /\ result.zones = <<zone_info(final_zones[1])>>

\* contours were found, none passed the filter of stage 1, and the call
\* went through the six stages and returned the default zone
C28_Witness ==
    /\ pc = "done"
    /\ C28FallbackFired
    /\ contours # <<>>
    /\ stages = StageNames
    /\ result.total_zones = 1
    /\ result.zones[1].content = DefaultContent

\* the confidences differ by less than limit tenths
C29Within(c1, c2, limit) ==
    10 * Abs(c1.num * c2.den - c2.num * c1.den) < limit * c1.den * c2.den

\* C29: a fused cluster is a star around its seed, its lowest index: every
\* other member satisfies the merge predicate with the seed, so it has the
\* seed's type and a confidence within 0.3 of the seed's; the fused zone
\* has the seed's type; two members differ in confidence by less than 0.6
\* and need not satisfy the predicate with each other.
C29_ClusterIsStar ==
    pc = "order" =>
        \A k \in 1..Len(clusters) :
            Len(clusters[k]) > 1 =>
                LET seed == classified_zones[clusters[k][1]]
                IN /\ \A m \in 2..Len(clusters[k]) :
                        LET z == classified_zones[clusters[k][m]]
                        IN /\ clusters[k][1] < clusters[k][m]
                           /\ ~C9Incompatible(clusters[k][1], clusters[k][m])
                           /\ C20Condition(seed, z)
                           /\ z.type = seed.type
                           /\ C29Within(seed.confidence, z.confidence, 3)
                   /\ merged_zones[k].type = seed.type
                   /\ \A a, b \in Range(clusters[k]) :
                          C29Within(classified_zones[a].confidence,
                                    classified_zones[b].confidence, 6)

\* a seed took two zones that should not merge with each other: their
\* confidences are 0.3 apart or more
C29_Witness ==
    /\ pc = "order"
    /\ \E k \in 1..Len(clusters) :
         /\ Len(clusters[k]) = 3
         /\ ~should_merge_zones(classified_zones[clusters[k][2]],
                                classified_zones[clusters[k][3]])
         /\ ~C29Within(classified_zones[clusters[k][2]].confidence,
                       classified_zones[clusters[k][3]].confidence, 3)
         /\ merged_zones[k].type = classified_zones[clusters[k][1]].type

RECURSIVE C30Total(_, _)
\* the sum of the counts of the given types
C30Total(counts, types) ==
    IF types = {} THEN 0
    ELSE LET t == CHOOSE u \in types : TRUE
         IN counts[t] + C30Total(counts, types \ {t})

\* the reading_order of the returned zone with this id
C30OrderOf(id) ==
    result.zones[CHOOSE i \in 1..Len(result.zones) :
                     result.zones[i].zone_id = id].reading_order

\* C30: a result with success = true has at least one zone, total_zones
\* is the number of its zone records, its reading_order list holds the id
\* of every returned zone exactly once, in increasing order of the zones'
\* reading_order, and its counts per type are the numbers of records of
\* each type and sum to the number of zones; a result with success = false
\* has no zone and carries the message of the exception.
C30_ResultConsistent ==
    pc = "done" =>
        IF result.success
        THEN /\ Len(result.zones) >= 1
             /\ result.total_zones = Len(result.zones)
             /\ Len(result.reading_order) = Len(result.zones)
             /\ Range(result.reading_order)
                    = {result.zones[i].zone_id : i \in 1..Len(result.zones)}
             /\ \A p, q \in 1..Len(result.reading_order) :
                    p < q => /\ result.reading_order[p] # result.reading_order[q]
                             /\ C30OrderOf(result.reading_order[p])
                                    < C30OrderOf(result.reading_order[q])
             /\ DOMAIN result.zone_types
                    = {result.zones[i].type : i \in 1..Len(result.zones)}
             /\ \A t \in DOMAIN result.zone_types :
                    result.zone_types[t]
                        = Cardinality({i \in 1..Len(result.zones) : result.zones[i].type = t})
             /\ C30Total(result.zone_types, DOMAIN result.zone_types) = Len(result.zones)
        ELSE /\ result.zones = <<>>
             /\ result.total_zones = 0
             /\ result.error = error
             /\ recovery.ran

\* a call returned three zones of two types or more, listed for reading
\* in an order that is not the order of their ids
C30_Witness ==
    /\ pc = "done" /\ result.success /\ ~result.fallback
    /\ Len(result.zones) = 3
    /\ Cardinality(DOMAIN result.zone_types) >= 2
    /\ \E t \in DOMAIN result.zone_types : result.zone_types[t] = 2
    /\ \E p \in 1..2 : result.reading_order[p] > result.reading_order[p + 1]

====
